---- MODULE Spec2Model ----
(***************************************************************************)
(* sysprobe: a host telemetry probe.  The model covers the sliding window  *)
(* (window.c), the usage calculator and the readers (cpu.c, mem.c), the    *)
(* two state classifiers (state.c) and the sample loop of main().          *)
(*                                                                         *)
(* C doubles are modelled as exact rationals <<num, den>> in lowest terms  *)
(* with den > 0; rounding error of the floating point unit is not          *)
(* modelled.  A record emitted by the loop is the argument list handed to  *)
(* printf; the rendering of "%.2f" and the timestamp are left out.         *)
(***************************************************************************)
EXTENDS Integers, Sequences, FiniteSets, TLC

\* ------------------------------------------------------------------------
\* Bounds of the model
\* ------------------------------------------------------------------------
MaxTicks == 3
MaxAdds == 12

\* ------------------------------------------------------------------------
\* Rational arithmetic standing for C double arithmetic
\* ------------------------------------------------------------------------
Abs(x) == IF x < 0 THEN -x ELSE x

RECURSIVE GCD(_, _)
GCD(a, b) == IF b = 0 THEN a ELSE GCD(b, a % b)

\* The fraction a/b in lowest terms with a positive denominator.
Reduced(a, b) ==
    LET g == GCD(Abs(a), Abs(b))
    IN  IF b < 0 THEN <<(-a) \div g, (-b) \div g>> ELSE <<a \div g, b \div g>>

\* n/d as a rational; n and d are each evaluated once.
Rat(n, d) == CHOOSE r \in {Reduced(a, b) : <<a, b>> \in {<<n, d>>}} : TRUE

RatAdd(x, y) == Rat(x[1] * y[2] + y[1] * x[2], x[2] * y[2])
RatDivInt(x, k) == Rat(x[1], x[2] * k)
RatLt(x, y) == x[1] * y[2] < y[1] * x[2]

\* ------------------------------------------------------------------------
\* Values of the program
\* ------------------------------------------------------------------------
\* A double that was never assigned (no rational has denominator 0).
UninitD == <<0, 0>>

SYS_OK == "SYS_OK"
SYS_WARN == "SYS_WARN"
SYS_DANGER == "SYS_DANGER"

CPU_WINDOW == 10

\* What a read of an indeterminate double may produce.
Garbage == {Rat(-7, 1), Rat(1000, 1)}

ZeroCpu == [user |-> 0, nice |-> 0, system |-> 0, idle |-> 0]

\* ------------------------------------------------------------------------
\* state.c
\* ------------------------------------------------------------------------
sys_state_str(s) ==
    CASE s = SYS_OK -> "ok"
      [] s = SYS_WARN -> "warn"
      [] s = SYS_DANGER -> "danger"
      [] OTHER -> "unknown"

cpu_state_from_avg_ge(avg) ==
    IF ~RatLt(avg, Rat(95, 1)) THEN SYS_DANGER
    ELSE IF ~RatLt(avg, Rat(85, 1)) THEN SYS_WARN
    ELSE SYS_OK

cpu_state_from_avg(avg) ==
    IF RatLt(Rat(95, 1), avg) THEN SYS_DANGER
    ELSE IF RatLt(Rat(85, 1), avg) THEN SYS_WARN
    ELSE SYS_OK

mem_state_from_capacity_warn_first(cap) ==
    IF cap.mem_total_kb = 0 THEN SYS_OK
    ELSE
      LET avail_ratio == Rat(cap.mem_avail_kb, cap.mem_total_kb)
          swap_used == IF cap.swap_total_kb > 0
                       THEN Rat(cap.swap_total_kb - cap.swap_free_kb, cap.swap_total_kb)
                       ELSE Rat(0, 1)
      IN  IF RatLt(avail_ratio, Rat(1, 10)) \/ RatLt(Rat(80, 1), swap_used) THEN SYS_WARN
          ELSE IF RatLt(avail_ratio, Rat(5, 100)) THEN SYS_DANGER
          ELSE SYS_OK

\* The callers pass &mem, never a null pointer.  swap_used is the used
\* FRACTION of swap (no factor 100), compared with 80.
mem_state_from_capacity(cap) ==
    IF cap.mem_total_kb = 0 THEN SYS_OK
    ELSE
      LET avail_ratio == Rat(cap.mem_avail_kb, cap.mem_total_kb)
          swap_used == IF cap.swap_total_kb > 0
                       THEN Rat(cap.swap_total_kb - cap.swap_free_kb, cap.swap_total_kb)
                       ELSE Rat(0, 1)
      IN  IF RatLt(avail_ratio, Rat(5, 100)) THEN SYS_DANGER
          ELSE IF RatLt(avail_ratio, Rat(1, 10)) \/ RatLt(Rat(80, 1), swap_used) THEN SYS_WARN
          ELSE SYS_OK

\* ------------------------------------------------------------------------
\* cpu.c: cpu_usage, read_cpu_stat
\* ------------------------------------------------------------------------
cpu_usage(prev, curr) ==
    LET prev_idle == prev.idle
        curr_idle == curr.idle
        prev_total == prev.user + prev.nice + prev.system + prev.idle
        curr_total == curr.user + curr.nice + curr.system + curr.idle
        total_delta == curr_total - prev_total
        idle_delta == curr_idle - prev_idle
    IN  IF total_delta = 0 THEN Rat(0, 1)
        ELSE Rat(100 * (total_delta - idle_delta), total_delta)

\* /proc/stat as one read sees it: whether fopen succeeds, the
\* counters of its first line and the number n of fields fscanf converts.
\* fscanf stores the first n fields in the order user, nice, system, idle.
read_cpu_stat(out, file) ==
    IF ~file.open THEN [rc |-> -1, out |-> out]
    ELSE [rc  |-> IF file.n = 4 THEN 0 ELSE -1,
          out |-> [user   |-> IF file.n >= 1 THEN file.cpu.user ELSE out.user,
                   nice   |-> IF file.n >= 2 THEN file.cpu.nice ELSE out.nice,
                   system |-> IF file.n >= 3 THEN file.cpu.system ELSE out.system,
                   idle   |-> IF file.n >= 4 THEN file.cpu.idle ELSE out.idle]]

\* ------------------------------------------------------------------------
\* mem.c: read_mem_stat
\* ------------------------------------------------------------------------
ZeroMem == [mem_total_kb |-> 0, mem_avail_kb |-> 0,
            swap_total_kb |-> 0, swap_free_kb |-> 0]

\* The fscanf loop over the "key value unit" triples of /proc/meminfo.
RECURSIVE ScanMeminfo(_, _, _, _)
ScanMeminfo(cap, lines, i, cnt) ==
    IF i > Len(lines) THEN cap
    ELSE
      LET key == lines[i][1]
          value == lines[i][2]
          hit == key \in {"MemTotal:", "MemAvailable:", "SwapTotal:", "SwapFree:"}
          cap2 == CASE key = "MemTotal:" -> [cap EXCEPT !.mem_total_kb = value]
                    [] key = "MemAvailable:" -> [cap EXCEPT !.mem_avail_kb = value]
                    [] key = "SwapTotal:" -> [cap EXCEPT !.swap_total_kb = value]
                    [] key = "SwapFree:" -> [cap EXCEPT !.swap_free_kb = value]
                    [] OTHER -> cap
          cnt2 == IF hit THEN cnt + 1 ELSE cnt
      IN  IF cnt2 = 4 THEN cap2 ELSE ScanMeminfo(cap2, lines, i + 1, cnt2)

read_mem_stat_open_first(cap, file) ==
    IF ~file.open THEN [rc |-> -1, cap |-> cap]
    ELSE [rc |-> 0, cap |-> ScanMeminfo(ZeroMem, file.lines, 1, 0)]

\* file: whether fopen of /proc/meminfo succeeds, and its triples.
\* The four fields are zeroed before the file is opened.
read_mem_stat(cap, file) ==
    IF ~file.open THEN [rc |-> -1, cap |-> ZeroMem]
    ELSE [rc |-> 0, cap |-> ScanMeminfo(ZeroMem, file.lines, 1, 0)]

\* ------------------------------------------------------------------------
\* window.c
\* ------------------------------------------------------------------------
\* cpu_win as declared: nothing assigned yet (-1 stands for the
\* indeterminate ints, which cpu_window_init overwrites before any use).
UninitWindow == [samples |-> [i \in 0..(CPU_WINDOW - 1) |-> UninitD],
                 index |-> -1, count |-> -1]

cpu_window_init(w) == [w EXCEPT !.index = 0, !.count = 0]

cpu_window_add(w, value) ==
    [samples |-> [w.samples EXCEPT ![w.index] = value],
     index   |-> (w.index + 1) % CPU_WINDOW,
     count   |-> IF w.count < CPU_WINDOW THEN w.count + 1 ELSE w.count]

\* A slot never written holds an indeterminate value; g is what reading it yields.
SlotRead(x, g) == IF x = UninitD THEN g ELSE x

RECURSIVE SumSlots(_, _, _, _)
SumSlots(w, i, n, g) ==
    IF i >= n THEN Rat(0, 1)
    ELSE RatAdd(SlotRead(w.samples[i], g), SumSlots(w, i + 1, n, g))

cpu_window_avg_all_slots(w, g) ==
    IF w.count # 0 THEN RatDivInt(SumSlots(w, 0, CPU_WINDOW, g), w.count)
    ELSE Rat(0, 1)

cpu_window_avg(w, g) ==
    IF w.count # 0 THEN RatDivInt(SumSlots(w, 0, w.count, g), w.count)
    ELSE Rat(0, 1)

\* ------------------------------------------------------------------------
\* The environment the readers see
\* ------------------------------------------------------------------------
\* Kernel tick counters when the probe starts, and the amounts by which they
\* advance during the sleep(1) of tick k: nothing, or the k-th load of a
\* repeating pattern of three.
BootStat == [user |-> 10, nice |-> 2, system |-> 5, idle |-> 100]

Loads == <<[user |-> 80, nice |-> 0, system |-> 0, idle |-> 20],
           [user |-> 30, nice |-> 10, system |-> 10, idle |-> 50],
           [user |-> 1, nice |-> 1, system |-> 2, idle |-> 96]>>

Deltas(k) == {ZeroCpu, Loads[((k - 1) % Len(Loads)) + 1]}

Advance(ps, d) == [user |-> ps.user + d.user, nice |-> ps.nice + d.nice,
                   system |-> ps.system + d.system, idle |-> ps.idle + d.idle]

\* /proc/stat for one read: unopenable, or open with fscanf converting the
\* first n of the four fields (n = 4: a whole line).
StatFiles(ps) == {[open |-> FALSE, cpu |-> ps, n |-> 0]}
                 \cup {[open |-> TRUE, cpu |-> ps, n |-> k] : k \in 0..4}

\* /proc/meminfo for one read: unopenable, or one of these contents.
MemContents ==
    {<< <<"MemTotal:", 100>>, <<"MemFree:", 7>>, <<"MemAvailable:", 50>>,
        <<"SwapTotal:", 100>>, <<"SwapFree:", 10>>, <<"MemTotal:", 7>> >>,
     << <<"MemTotal:", 1048576>>, <<"SwapTotal:", 2097152>>,
        <<"SwapFree:", 1048576>> >>}

MemFiles == {[open |-> FALSE, lines |-> <<>>]}
            \cup {[open |-> TRUE, lines |-> c] : c \in MemContents}

\* The host at startup: the result of sysconf(_SC_NPROCESSORS_ONLN), and
\* cpuinfo_max_freq absent, present without a number in it, or present with
\* a frequency in kHz.
Hosts == {[sysconf |-> -1, open |-> FALSE, parses |-> FALSE, khz |-> 0],
          [sysconf |-> 4, open |-> TRUE, parses |-> FALSE, khz |-> 0],
          [sysconf |-> 4, open |-> TRUE, parses |-> TRUE, khz |-> 2400000]}

\* ------------------------------------------------------------------------
\* State
\* ------------------------------------------------------------------------
VARIABLES
    pc,          \* position of main()
    running,     \* volatile sig_atomic_t running
    cap,         \* struct cpu_capacity cap
    absent_msg,  \* "Frequency info is not exposed." was printed
    invalid_op,  \* fclose was called on a stream that was never opened
    banner,      \* what the startup printfs wrote
    mem,         \* mem_stat mem
    mem_rc,      \* value returned by the last read_mem_stat call
    prev_cpu,    \* struct cpu_stat prev_cpu
    curr_cpu,    \* struct cpu_stat curr_cpu
    cpu_win,     \* cpu_window cpu_win
    usage,       \* double usage
    rec,         \* arguments of the last record printf
    nrec,        \* records written so far
    nticks,      \* loop iterations entered so far
    procstat,    \* the kernel's tick counters
    ok_reads,    \* history: read_cpu_stat calls of the loop that returned 0
    adds,        \* history: cpu_window_add calls
    sig_recs,    \* history: records written while running = 0
    prev_ok,     \* history: the value of last_ok before its latest change
    last_ok,     \* history: snapshot of the latest successful read_cpu_stat of
                 \* the loop; before the first one, what the startup read left
    cpu_hist,    \* history: the "cpu" value of every record written
    added,       \* window harness: values handed to cpu_window_add
    avg_out,     \* window harness: result of cpu_window_avg
    in_avg,      \* classifier harness: argument of cpu_state_from_avg
    in_mem,      \* classifier harness: argument of mem_state_from_capacity
    out_cpu,     \* classifier harness: result of cpu_state_from_avg
    out_mem      \* classifier harness: result of mem_state_from_capacity

mainVars == <<pc, running, cap, absent_msg, invalid_op, banner, mem, mem_rc,
              prev_cpu, curr_cpu, usage, rec, nrec, nticks, procstat,
              ok_reads, adds, sig_recs, prev_ok, last_ok, cpu_hist>>
winVars == <<added, avg_out>>
clsVars == <<in_avg, in_mem, out_cpu, out_mem>>
vars == <<mainVars, cpu_win, winVars, clsVars>>

NoResult == "none"
NoRec == [cpu |-> UninitD, cpu_avg |-> UninitD, mem_used |-> UninitD,
          mem_avail |-> UninitD, mem_swap_used |-> UninitD,
          mem_swap_avail |-> UninitD, CPU_STATE |-> NoResult, MEM_STATE |-> NoResult]

LoopPcs == {"loop", "sleep", "read_cpu", "sample", "read_mem", "emit"}

MainInit ==
    /\ pc = "start"
    /\ running = 1
    /\ cap = [cores |-> -1, max_freq_khz |-> -1]
    /\ absent_msg = FALSE
    /\ invalid_op = FALSE
    /\ banner = "nothing"
    /\ mem = [mem_total_kb |-> -1, mem_avail_kb |-> -1,
              swap_total_kb |-> -1, swap_free_kb |-> -1]
    /\ mem_rc = 0
    /\ prev_cpu = ZeroCpu
    /\ curr_cpu = ZeroCpu
    /\ usage = UninitD
    /\ rec = NoRec
    /\ nrec = 0
    /\ nticks = 0
    /\ procstat = BootStat
    /\ ok_reads = 0
    /\ adds = 0
    /\ sig_recs = 0
    /\ prev_ok = ZeroCpu
    /\ last_ok = ZeroCpu
    /\ cpu_hist = <<>>

WinIdle == added = <<>> /\ avg_out = UninitD
ClsIdle == in_avg = UninitD /\ in_mem = ZeroMem /\ out_cpu = NoResult /\ out_mem = NoResult

Init == MainInit /\ cpu_win = UninitWindow /\ WinIdle /\ ClsIdle

\* ------------------------------------------------------------------------
\* main(): startup
\* ------------------------------------------------------------------------
\* read_cpu_capacity(&cap).  With the frequency file absent f is NULL, the
\* message is printed and fclose(f) is still reached: fclose(NULL) is
\* undefined, the call either returns or the process dies in it.
ReadCpuCapacity(f) ==
    /\ pc = "start"
    /\ cap' = [cores |-> IF f.sysconf < 1 THEN 1 ELSE f.sysconf,
               max_freq_khz |-> IF f.open /\ f.parses THEN f.khz ELSE -1]
    /\ absent_msg' = ~f.open
    /\ invalid_op' = ~f.open
    /\ IF ~f.open THEN pc' \in {"banner", "crashed"} ELSE pc' = "banner"
    /\ UNCHANGED <<running, banner, mem, mem_rc, prev_cpu, curr_cpu, usage, rec,
                   nrec, nticks, procstat, ok_reads, adds, sig_recs, prev_ok,
                   last_ok, cpu_hist, cpu_win, winVars, clsVars>>

KbToGb(kb) == RatDivInt(RatDivInt(Rat(kb, 1), 1024), 1024)

\* The capacity banner, the initial read_mem_stat(&mem) and the printf of its
\* four fields (each /1024.0/1024.0), return value not looked at.
PrintBanner(file) ==
    /\ pc = "banner"
    /\ LET r == read_mem_stat(mem, file)
       IN  /\ mem' = r.cap
           /\ mem_rc' = r.rc
           /\ banner' = IF cap.max_freq_khz > 0 THEN "cores, max freq, memory"
                         ELSE "cores, memory"
    /\ pc' = "install"
    /\ UNCHANGED <<running, cap, absent_msg, invalid_op, prev_cpu, curr_cpu, usage,
                   rec, nrec, nticks, procstat, ok_reads, adds, sig_recs, prev_ok,
                   last_ok, cpu_hist, cpu_win, winVars, clsVars>>

\* signal(SIGINT, ...), the zeroed snapshots, cpu_window_init and the first
\* read_cpu_stat(&prev_cpu), whose return value is not looked at.
Install(file) ==
    /\ pc = "install"
    /\ LET r == read_cpu_stat(ZeroCpu, file)
       IN  /\ prev_cpu' = r.out
           /\ last_ok' = r.out
    /\ curr_cpu' = ZeroCpu
    /\ cpu_win' = cpu_window_init(cpu_win)
    /\ pc' = "loop"
    /\ UNCHANGED <<running, cap, absent_msg, invalid_op, banner, mem, mem_rc, usage,
                   rec, nrec, nticks, procstat, ok_reads, adds, sig_recs, prev_ok,
                   cpu_hist, winVars, clsVars>>

\* ------------------------------------------------------------------------
\* main(): the signal handler and the sample loop
\* ------------------------------------------------------------------------
handle_sigint ==
    /\ pc \in LoopPcs
    /\ running' = 0
    /\ UNCHANGED <<pc, cap, absent_msg, invalid_op, banner, mem, mem_rc, prev_cpu,
                   curr_cpu, usage, rec, nrec, nticks, procstat, ok_reads, adds,
                   sig_recs, prev_ok, last_ok, cpu_hist, cpu_win, winVars, clsVars>>

LoopCondition_ignores_flag(flag) == TRUE

\* while (running)
LoopCondition(flag) == flag # 0

LoopEnter ==
    /\ pc = "loop"
    /\ LoopCondition(running)
    /\ nticks < MaxTicks
    /\ nticks' = nticks + 1
    /\ pc' = "sleep"
    /\ UNCHANGED <<running, cap, absent_msg, invalid_op, banner, mem, mem_rc,
                   prev_cpu, curr_cpu, usage, rec, nrec, procstat, ok_reads, adds,
                   sig_recs, prev_ok, last_ok, cpu_hist, cpu_win, winVars, clsVars>>

LoopExit ==
    /\ pc = "loop"
    /\ ~LoopCondition(running)
    /\ pc' = "stopped"
    /\ UNCHANGED <<running, cap, absent_msg, invalid_op, banner, mem, mem_rc,
                   prev_cpu, curr_cpu, usage, rec, nrec, nticks, procstat, ok_reads,
                   adds, sig_recs, prev_ok, last_ok, cpu_hist, cpu_win, winVars,
                   clsVars>>

\* sleep(1): the kernel counters advance meanwhile.
Sleep(d) ==
    /\ pc = "sleep"
    /\ procstat' = Advance(procstat, d)
    /\ pc' = "read_cpu"
    /\ UNCHANGED <<running, cap, absent_msg, invalid_op, banner, mem, mem_rc,
                   prev_cpu, curr_cpu, usage, rec, nrec, nticks, ok_reads, adds,
                   sig_recs, prev_ok, last_ok, cpu_hist, cpu_win, winVars, clsVars>>

AfterCpuRead_no_continue(rc) == "sample"

\* if (read_cpu_stat(&curr_cpu) != 0) continue;
AfterCpuRead(rc) == IF rc # 0 THEN "loop" ELSE "sample"

ReadCpu(file) ==
    /\ pc = "read_cpu"
    /\ LET r == read_cpu_stat(curr_cpu, file)
       IN  /\ curr_cpu' = r.out
           /\ pc' = AfterCpuRead(r.rc)
           /\ ok_reads' = IF r.rc = 0 THEN ok_reads + 1 ELSE ok_reads
           /\ prev_ok' = IF r.rc = 0 THEN last_ok ELSE prev_ok
           /\ last_ok' = IF r.rc = 0 THEN r.out ELSE last_ok
    /\ UNCHANGED <<running, cap, absent_msg, invalid_op, banner, mem, mem_rc,
                   prev_cpu, usage, rec, nrec, nticks, procstat, adds, sig_recs,
                   cpu_hist, cpu_win, winVars, clsVars>>

\* usage = cpu_usage(&prev_cpu, &curr_cpu); cpu_window_add(&cpu_win, usage);
Sample ==
    /\ pc = "sample"
    /\ usage' = cpu_usage(prev_cpu, curr_cpu)
    /\ cpu_win' = cpu_window_add(cpu_win, usage')
    /\ adds' = adds + 1
    /\ pc' = "read_mem"
    /\ UNCHANGED <<running, cap, absent_msg, invalid_op, banner, mem, mem_rc,
                   prev_cpu, curr_cpu, rec, nrec, nticks, procstat, ok_reads,
                   sig_recs, prev_ok, last_ok, cpu_hist, winVars, clsVars>>

\* read_mem_stat(&mem), return value not looked at.
ReadMem(file) ==
    /\ pc = "read_mem"
    /\ LET r == read_mem_stat(mem, file)
       IN  mem' = r.cap /\ mem_rc' = r.rc
    /\ pc' = "emit"
    /\ UNCHANGED <<running, cap, absent_msg, invalid_op, banner, prev_cpu, curr_cpu,
                   usage, rec, nrec, nticks, procstat, ok_reads, adds, sig_recs,
                   prev_ok, last_ok, cpu_hist, cpu_win, winVars, clsVars>>

\* The arguments of the record printf, in the order of the format string.
Record(u, avg_cpu, m) ==
    [cpu            |-> u,
     cpu_avg        |-> avg_cpu,
     mem_used       |-> KbToGb(m.mem_total_kb - m.mem_avail_kb),
     mem_avail      |-> KbToGb(m.mem_avail_kb),
     mem_swap_used  |-> KbToGb(m.swap_total_kb - m.swap_free_kb),
     mem_swap_avail |-> RatDivInt(Rat(m.swap_free_kb, 1), 1024),
     CPU_STATE      |-> sys_state_str(cpu_state_from_avg(avg_cpu)),
     MEM_STATE      |-> sys_state_str(mem_state_from_capacity(m))]

NextPrev_kept(prev, curr) == prev

\* prev_cpu = curr_cpu;
NextPrev(prev, curr) == curr

\* cpu_window_avg, the two classifiers, printf, fflush, prev_cpu = curr_cpu.
Emit(g) ==
    /\ pc = "emit"
    /\ rec' = Record(usage, cpu_window_avg(cpu_win, g), mem)
    /\ nrec' = nrec + 1
    /\ cpu_hist' = Append(cpu_hist, usage)
    /\ sig_recs' = IF running = 0 THEN sig_recs + 1 ELSE sig_recs
    /\ prev_cpu' = NextPrev(prev_cpu, curr_cpu)
    /\ pc' = "loop"
    /\ UNCHANGED <<running, cap, absent_msg, invalid_op, banner, mem, mem_rc,
                   curr_cpu, usage, nticks, procstat, ok_reads, adds, prev_ok,
                   last_ok, cpu_win, winVars, clsVars>>

MainStep ==
    \/ \E f \in Hosts : ReadCpuCapacity(f)
    \/ \E file \in MemFiles : PrintBanner(file)
    \/ \E file \in StatFiles(procstat) : Install(file)
    \/ LoopEnter
    \/ LoopExit
    \/ \E d \in Deltas(nticks) : Sleep(d)
    \/ \E file \in StatFiles(procstat) : ReadCpu(file)
    \/ Sample
    \/ \E file \in MemFiles : ReadMem(file)
    \/ \E g \in Garbage : Emit(g)

Next == MainStep \/ handle_sigint

Spec == Init /\ [][Next]_vars

\* The process is scheduled: main() keeps taking steps while it has one.
FairSpec == Spec /\ WF_vars(MainStep)

\* ------------------------------------------------------------------------
\* The sliding window on its own: init, then any sequence of adds, with the
\* average taken at any point
\* ------------------------------------------------------------------------
\* The k-th value added (k from 0) is k itself or the constant 3.
WinValues(k) == {Rat(k, 1), Rat(3, 1)}

WinInit ==
    /\ MainInit
    /\ ClsIdle
    /\ cpu_win = cpu_window_init(UninitWindow)
    /\ added = <<>>
    /\ avg_out = UninitD

WinAdd(v) ==
    /\ Len(added) < MaxAdds
    /\ cpu_win' = cpu_window_add(cpu_win, v)
    /\ added' = Append(added, v)
    /\ avg_out' = UninitD
    /\ UNCHANGED <<mainVars, clsVars>>

WinAvg(g) ==
    /\ avg_out' = cpu_window_avg(cpu_win, g)
    /\ UNCHANGED <<mainVars, clsVars, cpu_win, added>>

WinNext ==
    \/ \E v \in WinValues(Len(added)) : WinAdd(v)
    \/ \E g \in Garbage : WinAvg(g)

WinSpec == WinInit /\ [][WinNext]_vars

\* ------------------------------------------------------------------------
\* The two classifiers on their own
\* ------------------------------------------------------------------------
AvgInputs == {Rat(n, 10) : n \in {-50, 0, 849, 850, 851, 949, 950, 951, 1000, 1500}}

MemInputs == [mem_total_kb : {0, 100, 200},
              mem_avail_kb : {0, 4, 5, 9, 10, 19, 20, 50, 100},
              swap_total_kb : {0, 100},
              swap_free_kb : {0, 10, 19, 20, 21, 100}]

ClsInit ==
    /\ MainInit
    /\ WinIdle
    /\ cpu_win = UninitWindow
    /\ in_avg \in AvgInputs
    /\ in_mem \in MemInputs
    /\ out_cpu = NoResult
    /\ out_mem = NoResult

CallCpuState ==
    /\ out_cpu' = cpu_state_from_avg(in_avg)
    /\ UNCHANGED <<mainVars, cpu_win, winVars, in_avg, in_mem, out_mem>>

CallMemState ==
    /\ out_mem' = mem_state_from_capacity(in_mem)
    /\ UNCHANGED <<mainVars, cpu_win, winVars, in_avg, in_mem, out_cpu>>

ClsNext == CallCpuState \/ CallMemState

ClsSpec == ClsInit /\ [][ClsNext]_vars

\* ========================================================================
\* Properties
\* ========================================================================
Min(a, b) == IF a < b THEN a ELSE b

RECURSIVE SumSeq(_)
SumSeq(q) == IF q = <<>> THEN Rat(0, 1) ELSE RatAdd(Head(q), SumSeq(Tail(q)))

\* Arithmetic mean of the last min(Len(q), CPU_WINDOW) values of q, 0 for none.
MeanLast(q) ==
    LET k == Len(q)
        n == Min(k, CPU_WINDOW)
    IN  IF k = 0 THEN Rat(0, 1)
        ELSE RatDivInt(SumSeq(SubSeq(q, k - n + 1, k)), n)

\* C1: memState is WARN for every snapshot with totalKb > 0, available ratio
\* >= 0.10, swapTotalKb > 0 and more than 80% of swap in use.
C1_HighSwapIsWarn ==
    (/\ out_mem # NoResult
     /\ in_mem.mem_total_kb > 0
     /\ 10 * in_mem.mem_avail_kb >= in_mem.mem_total_kb
     /\ in_mem.swap_total_kb > 0
     /\ 100 * (in_mem.swap_total_kb - in_mem.swap_free_kb) > 80 * in_mem.swap_total_kb)
    => out_mem = SYS_WARN

C3_FailedCpuReadSkipsTick ==
    /\ [][(pc = "read_cpu" /\ pc' # "read_cpu" /\ ok_reads' = ok_reads)
            => /\ cpu_win' = cpu_win
               /\ \A g \in Garbage : cpu_window_avg(cpu_win', g) = cpu_window_avg(cpu_win, g)
               /\ prev_cpu' = prev_cpu
               /\ pc' = "loop"]_vars
    /\ [](pc \in {"loop", "sleep", "read_cpu", "stopped"} => adds = ok_reads)

C3_Witness ==
    /\ pc = "loop"
    /\ ok_reads >= 1
    /\ nticks > ok_reads
    /\ adds = ok_reads
    /\ cpu_win.count = ok_reads
    /\ curr_cpu # prev_cpu

\* The order of the steps of one tick.
TickSucc(p) ==
    CASE p = "sleep" -> {"read_cpu"}
      [] p = "read_cpu" -> {"sample", "loop"}
      [] p = "sample" -> {"read_mem"}
      [] p = "read_mem" -> {"emit"}
      [] p = "emit" -> {"loop"}
      [] OTHER -> {}

\* C4: once the flag is cleared the tick in progress runs to its end (a tick
\* whose CPU read succeeded writes its record and replaces the previous
\* snapshot), the loop stops only at the loop test, no new tick starts, at most
\* one record is written after the signal, and the loop reaches the terminal
\* stopped position.
C4_ShutdownAtLoopBoundary ==
    /\ [][(running = 0 /\ pc \in LoopPcs \ {"loop"} /\ pc' # pc) => pc' \in TickSucc(pc)]_vars
    /\ [][(running = 0 /\ pc = "emit" /\ pc' # pc)
            => (nrec' = nrec + 1 /\ prev_cpu' = curr_cpu)]_vars
    /\ [][(pc' = "stopped" /\ pc # "stopped") => (pc = "loop" /\ running = 0)]_vars
    /\ [][running = 0 => nticks' = nticks]_vars
    /\ [][pc = "stopped" => (pc' = "stopped" /\ nrec' = nrec /\ nticks' = nticks)]_vars
    /\ [](sig_recs <= 1)
    /\ ((running = 0) ~> (pc = "stopped"))

C4_Witness ==
    /\ pc = "stopped"
    /\ sig_recs = 1
    /\ nrec >= 2
    /\ prev_cpu = curr_cpu

\* C5: with the max-frequency file absent, read_cpu_capacity reports it,
\* leaves cores >= 1 and the frequency at -1, performs no invalid operation
\* and the program carries on.
C5_AbsentFreqIsNormal ==
    absent_msg => /\ cap.cores >= 1
                  /\ cap.max_freq_khz = -1
                  /\ ~invalid_op
                  /\ pc # "crashed"

\* C6: after init and k adds, count = min(k, 10), cursor = k mod 10 and the
\* average is the mean of exactly the last min(k, 10) values (0 for k = 0).
C6_WindowAverage ==
    /\ cpu_win.count = Min(Len(added), CPU_WINDOW)
    /\ cpu_win.index = Len(added) % CPU_WINDOW
    /\ avg_out # UninitD => avg_out = MeanLast(added)

C6_Witness ==
    /\ added = [i \in 1..11 |-> Rat(i - 1, 1)]
    /\ avg_out = Rat(55, 10)

\* usage as the specification states it.
ExpectedUsage(p, c) ==
    LET deltaTotal == (c.user + c.nice + c.system + c.idle)
                      - (p.user + p.nice + p.system + p.idle)
        deltaIdle == c.idle - p.idle
    IN  IF deltaTotal = 0 THEN <<0, 1>>
        ELSE Rat(100 * deltaTotal - 100 * deltaIdle, deltaTotal)

\* C7: the cpu value of a record is usage(prev, curr), curr the snapshot of
\* this tick and prev that of the latest earlier successful read (for the
\* first record, what the startup read left); the cpu_avg value is the
\* window average with that value included.
C7_EmittedUsage ==
    [][(pc = "emit" /\ pc' = "loop")
         => /\ rec'.cpu = ExpectedUsage(prev_ok, last_ok)
            /\ cpu_hist' = Append(cpu_hist, rec'.cpu)
            /\ rec'.cpu_avg = MeanLast(cpu_hist')]_vars

C7_Witness ==
    /\ nrec = 3
    /\ nticks = 3
    /\ cpu_hist = <<Rat(80, 1), Rat(50, 1), Rat(4, 1)>>
    /\ rec.cpu = Rat(4, 1)
    /\ rec.cpu_avg = Rat(134, 3)

\* C8: the four memory fields of every record are the kilobyte figures
\* divided by 1024*1024.
C8_MemFieldsInGb ==
    (nrec > 0 /\ pc # "emit")
    => /\ rec.mem_used = Rat(mem.mem_total_kb - mem.mem_avail_kb, 1048576)
       /\ rec.mem_avail = Rat(mem.mem_avail_kb, 1048576)
       /\ rec.mem_swap_used = Rat(mem.swap_total_kb - mem.swap_free_kb, 1048576)
       /\ rec.mem_swap_avail = Rat(mem.swap_free_kb, 1048576)

\* C9: memState is OK whenever totalKb = 0; for totalKb > 0 it is DANGER
\* exactly when available/total < 0.05, whatever the swap figures, and WARN
\* when 0.05 <= available/total < 0.10.
C9_MemStateRatio ==
    out_mem # NoResult =>
      /\ in_mem.mem_total_kb = 0 => out_mem = SYS_OK
      /\ in_mem.mem_total_kb > 0 =>
           /\ out_mem = SYS_DANGER <=> 20 * in_mem.mem_avail_kb < in_mem.mem_total_kb
           /\ (/\ 20 * in_mem.mem_avail_kb >= in_mem.mem_total_kb
               /\ 10 * in_mem.mem_avail_kb < in_mem.mem_total_kb) => out_mem = SYS_WARN

C9_Witness ==
    /\ in_mem = [mem_total_kb |-> 100, mem_avail_kb |-> 4,
                 swap_total_kb |-> 100, swap_free_kb |-> 0]
    /\ out_mem = SYS_DANGER

\* C10: cpuState is DANGER exactly when avg > 95, WARN exactly when
\* 85 < avg <= 95 and OK exactly when avg <= 85.
C10_CpuStateStrict ==
    out_cpu # NoResult =>
      LET n == in_avg[1]
          d == in_avg[2]
      IN  /\ out_cpu = SYS_DANGER <=> n > 95 * d
          /\ out_cpu = SYS_WARN <=> (n > 85 * d /\ n <= 95 * d)
          /\ out_cpu = SYS_OK <=> n <= 85 * d

C10_Witness ==
    /\ in_avg = <<95, 1>>
    /\ out_cpu = SYS_WARN

====
